---- MODULE Spec2Model ----
(***************************************************************************)
(* Model of wave103.py: a Discord bot that keeps one process-wide queue of *)
(* resolved tracks and plays them through the guild's voice client.        *)
(*                                                                         *)
(* One action is one uninterrupted run of a coroutine between two awaits   *)
(* at which the shared state (queue, voice client) can be observed or      *)
(* changed by another coroutine.  The awaits of ctx.send that are followed *)
(* by no access to shared state are folded into the step before them.      *)
(*                                                                         *)
(* What a handler sends is a function of the state it runs in              *)
(* (the *_result operators); the state keeps only whether the last step    *)
(* ended with an unhandled exception.                                      *)
(*                                                                         *)
(* The voice client is discord.py's: is_playing() is false while paused    *)
(* and after the stream ended; play() raises ClientException while         *)
(* is_playing() and otherwise replaces the player; stop() drops the player *)
(* and its thread then calls `after` with no error; source is None when    *)
(* there is no player; ctx.voice_client is None when not connected.        *)
(* from_url and the voice connection are taken to succeed.                 *)
(***************************************************************************)
EXTENDS Integers, Sequences, FiniteSets, TLC

\* ---------------------------------------------------------------- bounds
MaxQueue == 2
MaxTasks == 2

\* ---------------------------------------------------------------- values
Tracks == {"A", "B", "C"}
NotFound == "NotFound"                 \* search_youtube returned None
Results == Tracks \cup {NotFound}
NoChannel == "NoChannel"               \* ctx.author.voice is None / ctx.voice_client is None
Channels == {"c1", "c2"}
NoTrack == "NoTrack"
Positions == (0 - 1) .. (MaxQueue + 2) \* song_number arguments tried by !remove
Levels == {150}                        \* volume arguments tried by !volume
Errors == {"none", "error"}            \* the error argument of after_playing

Exceptions == {"TypeError", "AttributeError", "ClientException"}

VARIABLES
    queue,       \* the module-level list `queue`
    channel,     \* ctx.voice_client.channel, NoChannel when ctx.voice_client is None
    player,      \* the voice client's player: "None", "Playing", "Paused", "Ended"
    source,      \* title of ctx.voice_client.source, NoTrack when there is no player
    vol,         \* ctx.voice_client.source.volume as a reduced fraction <<num, den>>
    searching,   \* play coroutines suspended in connect / search_youtube / send
    fetching,    \* play_next coroutines suspended in YTDLSource.from_url, per popped track
    scheduled,   \* play_next tasks created by after_playing and not yet started
    ended,       \* players that stopped and whose `after` callback was not yet called, per error
    raised,      \* the unhandled exception the last step ended with, "" if it ended normally
    scen         \* observer: how far the run has followed Script

vars == <<queue, channel, player, source, vol, searching, fetching, scheduled, ended, raised, scen>>

\* ---------------------------------------------------------------- helpers
RECURSIVE SumOver(_, _)
SumOver(f, S) == IF S = {} THEN 0
                 ELSE LET x == CHOOSE y \in S : TRUE IN f[x] + SumOver(f, S \ {x})

\* coroutines and callbacks in flight
Tasks == searching + SumOver(fetching, Tracks) + scheduled + SumOver(ended, Errors)

\* an embed: its fixed text, the track title it shows, its numbered fields
Embed(text, track) == [text |-> text, track |-> track, fields |-> <<>>]
\* the handler ended with an unhandled exception instead of an embed
Raise(exc) == [text |-> exc, track |-> "", fields |-> <<>>]
\* the step sent nothing
Silent == Embed("", "")
\* the exception a reply stands for, "" for an embed
Exc(reply) == IF reply.text \in Exceptions THEN reply.text ELSE ""

is_playing == player = "Playing"
is_paused == player = "Paused"
Connected == channel # NoChannel

\* the spec's currentTrack
currentTrack == IF player \in {"Playing", "Paused"} THEN source ELSE NoTrack

RECURSIVE Gcd(_, _)
Gcd(a, b) == IF b = 0 THEN a ELSE Gcd(b, a % b)

\* volume / 100
VolumeScale(level) == LET g == Gcd(level, 100) IN <<level \div g, 100 \div g>>

\* YTDLSource.__init__: volume = 0.5
DefaultVolume == <<1, 2>>
\* there is no source whose volume could be read
NoVolume == <<0, 0>>

Init ==
    /\ queue = <<>>
    /\ channel = NoChannel
    /\ player = "None"
    /\ source = NoTrack
    /\ vol = NoVolume
    /\ searching = 0
    /\ fetching = [t \in Tracks |-> 0]
    /\ scheduled = 0
    /\ ended = [e \in Errors |-> 0]
    /\ raised = ""
    /\ scen = 0

\* ---------------------------------------------------------------- observer
\* The scenario of three plays and a skip, as the labels of its steps.
Script == << <<"play", "voice">>, <<"found", "A">>, <<"start", "A">>,
             <<"play", "voice">>, <<"found", "B">>,
             <<"play", "voice">>, <<"found", "C">>,
             <<"skip", "voice">>, <<"after", "none">>, <<"task", "">>, <<"start", "B">> >>

\* an idle connected session with an empty queue and nothing in flight
IdleConnectedEmpty ==
    /\ Connected
    /\ player \notin {"Playing", "Paused"}
    /\ queue = <<>>
    /\ Tasks = 0

\* scen counts the steps of Script the run has just taken, in order and with no
\* other step between them, starting from IdleConnectedEmpty
Observe(label) ==
    scen' = IF scen > 0 /\ scen < Len(Script) /\ label = Script[scen + 1] THEN scen + 1
            ELSE IF IdleConnectedEmpty /\ label = Script[1] THEN 1
            ELSE 0

\* ---------------------------------------------------------------- handlers as functions of the state
\* (mutant) the track is inserted at the front
enqueue_front(q, t) == <<t>> \o q

\* queue.append(video_data)
enqueue(q, t) == Append(q, t)

\* play_next: if len(queue) > 0: video_data = queue.pop(0)
play_next_pop(q) ==
    IF Len(q) > 0 THEN [queue |-> Tail(q), popped |-> <<Head(q)>>]
    ELSE [queue |-> q, popped |-> <<>>]

\* queue.pop(i) for a 0-based i in range
PopAt(q, i) == SubSeq(q, 1, i) \o SubSeq(q, i + 2, Len(q))

\* !play before its first suspension: the voice check
play_result(c) ==
    IF c = NoChannel
    THEN [joins |-> FALSE, reply |-> Embed("Please join a voice channel!", "")]
    ELSE [joins |-> TRUE, reply |-> Silent]

\* !play after search_youtube returned r: what it sends or raises, whether it
\* appends r, and whether it goes on into play_next
play_resume_result(r) ==
    IF r = NotFound
    THEN \* video_data['title'] on None, before the `is None` check
         [reply |-> Raise("TypeError"), appends |-> FALSE, autostart |-> FALSE]
    ELSE IF ~Connected
    THEN \* ctx.voice_client.is_playing() on None, after the append
         [reply |-> Raise("AttributeError"), appends |-> TRUE, autostart |-> FALSE]
    ELSE [reply |-> Embed("Added to queue:", r), appends |-> TRUE, autostart |-> ~is_playing]

\* play_next after from_url returned: ctx.voice_client.play(source, after=after_playing)
\* and the embed of the started track
play_next_start_result(t) ==
    IF ~Connected
    THEN [starts |-> FALSE, reply |-> Raise("AttributeError")]    \* ctx.voice_client is None
    ELSE IF is_playing
    THEN [starts |-> FALSE, reply |-> Raise("ClientException")]   \* already playing audio
    ELSE [starts |-> TRUE, reply |-> Embed("", t)]

\* (mutant) the callback never schedules play_next
after_playing_tasks_never(error) == 0

\* (mutant) the error is only logged and the next track is scheduled anyway
after_playing_tasks_always(error) == 1

\* after_playing: the play_next tasks it creates
after_playing_tasks(error) == IF error = "error" THEN 0 ELSE 1

\* (mutant) skip answers but never calls ctx.voice_client.stop()
skip_result_no_stop(inVoice) ==
    IF ~inVoice
    THEN [stops |-> FALSE, reply |-> Embed("You are not in a voice channel!", "")]
    ELSE IF ~Connected
    THEN [stops |-> FALSE, reply |-> Embed("The bot is not connected to a voice channel.", "")]
    ELSE IF Len(queue) = 0
    THEN [stops |-> FALSE,
          reply |-> Embed("The queue is empty. If you want to stop the current song, use the !stop command.", "")]
    ELSE IF is_playing
    THEN [stops |-> FALSE, reply |-> Embed("Skipping the current song.", "")]
    ELSE [stops |-> FALSE, reply |-> Embed("The bot is not playing anything.", "")]

\* (mutant) skip without the check of len(queue)
skip_result_no_queue_check(inVoice) ==
    IF ~inVoice
    THEN [stops |-> FALSE, reply |-> Embed("You are not in a voice channel!", "")]
    ELSE IF ~Connected
    THEN [stops |-> FALSE, reply |-> Embed("The bot is not connected to a voice channel.", "")]
    ELSE IF is_playing
    THEN [stops |-> TRUE, reply |-> Embed("Skipping the current song.", "")]
    ELSE [stops |-> FALSE, reply |-> Embed("The bot is not playing anything.", "")]

\* !skip
skip_result(inVoice) ==
    IF ~inVoice
    THEN [stops |-> FALSE, reply |-> Embed("You are not in a voice channel!", "")]
    ELSE IF ~Connected
    THEN [stops |-> FALSE, reply |-> Embed("The bot is not connected to a voice channel.", "")]
    ELSE IF Len(queue) = 0
    THEN [stops |-> FALSE,
          reply |-> Embed("The queue is empty. If you want to stop the current song, use the !stop command.", "")]
    ELSE IF is_playing
    THEN [stops |-> TRUE, reply |-> Embed("Skipping the current song.", "")]
    ELSE [stops |-> FALSE, reply |-> Embed("The bot is not playing anything.", "")]

\* !current
current_song_result ==
    IF ~Connected THEN Raise("AttributeError")
    ELSE IF is_playing THEN Embed("Currently Playing:", source)
    ELSE Embed("The bot is not playing anything.", "")

\* queue_info: one field "{i + 1}. {title}" per enumerate(queue)
queue_fields(q) == [i \in 1 .. Len(q) |-> <<(i - 1) + 1, q[i]>>]

\* !queue
queue_info_result(q) ==
    IF Len(q) = 0 THEN Embed("The queue is empty.", "")
    ELSE [text |-> "Current Song Queue:", track |-> "", fields |-> queue_fields(q)]

\* (mutant) the check song_number < 1 is missing: queue.pop takes an index
\* below 0 from the end of the list
remove_song_result_no_lower(q, song_number) ==
    IF Len(q) = 0
    THEN [queue |-> q, reply |-> Embed("The queue is empty.", "")]
    ELSE IF song_number > Len(q)
    THEN [queue |-> q, reply |-> Embed("Invalid song number.", "")]
    ELSE [queue |-> PopAt(q, (song_number - 1) % Len(q)),
          reply |-> Embed("has been removed from the queue.", q[((song_number - 1) % Len(q)) + 1])]

\* (mutant) the 1-based song number is used as the 0-based index
remove_song_result_off_by_one(q, song_number) ==
    IF Len(q) = 0
    THEN [queue |-> q, reply |-> Embed("The queue is empty.", "")]
    ELSE IF song_number < 1 \/ song_number > Len(q)
    THEN [queue |-> q, reply |-> Embed("Invalid song number.", "")]
    ELSE [queue |-> PopAt(q, song_number),
          reply |-> Embed("has been removed from the queue.", q[song_number])]

\* !remove <song_number>: the queue and the embed it leaves
remove_song_result(q, song_number) ==
    IF Len(q) = 0
    THEN [queue |-> q, reply |-> Embed("The queue is empty.", "")]
    ELSE IF song_number < 1 \/ song_number > Len(q)
    THEN [queue |-> q, reply |-> Embed("Invalid song number.", "")]
    ELSE [queue |-> PopAt(q, song_number - 1),
          reply |-> Embed("has been removed from the queue.", q[song_number])]

\* (mutant) clear drops everything but the head of the queue
clear_queue_result_keeps_head ==
    [queue |-> IF queue = <<>> THEN <<>> ELSE <<Head(queue)>>, reply |-> Embed("The queue has been cleared.", "")]

\* !clear
clear_queue_result == [queue |-> <<>>, reply |-> Embed("The queue has been cleared.", "")]

\* (mutant) pause without the is_playing check
pause_result_unchecked ==
    IF ~Connected THEN [player |-> player, reply |-> Raise("AttributeError")]
    ELSE [player |-> "Paused", reply |-> Embed("Pausing the current song.", "")]

\* !pause
pause_result ==
    IF ~Connected THEN [player |-> player, reply |-> Raise("AttributeError")]
    ELSE IF is_playing THEN [player |-> "Paused", reply |-> Embed("Pausing the current song.", "")]
    ELSE [player |-> player, reply |-> Embed("The bot is not playing anything.", "")]

\* !resume
resume_result ==
    IF ~Connected THEN [player |-> player, reply |-> Raise("AttributeError")]
    ELSE IF is_paused THEN [player |-> "Playing", reply |-> Embed("Resuming the current song.", "")]
    ELSE [player |-> player, reply |-> Embed("The bot is not paused.", "")]

\* !volume <volume>
volume_result(level) ==
    IF ~Connected THEN [vol |-> vol, reply |-> Embed("The bot is not in a voice channel.", "")]
    ELSE IF source = NoTrack THEN [vol |-> vol, reply |-> Raise("AttributeError")]  \* source is None
    ELSE [vol |-> VolumeScale(level), reply |-> Embed("Setting the volume to", "")]

\* !stop
stop_result ==
    IF Connected THEN [disconnects |-> TRUE, reply |-> Embed("Disconnecting from voice channel.", "")]
    ELSE [disconnects |-> FALSE, reply |-> Embed("The bot is not in a voice channel.", "")]

\* ---------------------------------------------------------------- actions
\* (mutant) a bot connected elsewhere disconnects and connects anew instead of
\* moving, which drops its player
play_reconnects(c) ==
    /\ raised' = Exc(play_result(c).reply)
    /\ IF play_result(c).joins
       THEN /\ Tasks < MaxTasks
            /\ channel' = c
            /\ searching' = searching + 1
       ELSE UNCHANGED <<channel, searching>>
    /\ IF play_result(c).joins /\ Connected /\ channel # c
       THEN player' = "None" /\ source' = NoTrack /\ vol' = NoVolume
       ELSE UNCHANGED <<player, source, vol>>
    /\ UNCHANGED <<queue, fetching, scheduled, ended>>

\* !play up to its first suspension: voice check, connect or move, start the search
play(c) ==
    /\ raised' = Exc(play_result(c).reply)
    /\ IF play_result(c).joins
       THEN /\ Tasks < MaxTasks
            /\ channel' = c
            /\ searching' = searching + 1
       ELSE UNCHANGED <<channel, searching>>
    /\ UNCHANGED <<queue, player, source, vol, fetching, scheduled, ended>>

\* play_next up to its suspension in from_url, on the queue q
play_next_head(q) ==
    LET pn == play_next_pop(q) IN
    /\ queue' = pn.queue
    /\ IF pn.popped # <<>>
       THEN fetching' = [fetching EXCEPT ![pn.popped[1]] = @ + 1]
       ELSE UNCHANGED fetching

\* !play from the return of search_youtube (result r) to its end or to the
\* suspension inside play_next
play_resume(r) ==
    LET res == play_resume_result(r) IN
    /\ searching > 0
    /\ searching' = searching - 1
    /\ raised' = Exc(res.reply)
    /\ res.appends => Len(queue) < MaxQueue
    /\ IF res.autostart THEN play_next_head(enqueue(queue, r))
       ELSE IF res.appends THEN queue' = enqueue(queue, r) /\ UNCHANGED fetching
       ELSE UNCHANGED <<queue, fetching>>
    /\ UNCHANGED <<channel, player, source, vol, scheduled, ended>>

\* the !play_next command up to its suspension
play_next ==
    /\ queue # <<>> => Tasks < MaxTasks
    /\ play_next_head(queue)
    /\ raised' = ""
    /\ UNCHANGED <<channel, player, source, vol, searching, scheduled, ended>>

\* a play_next task created by after_playing starts to run
play_next_task ==
    /\ scheduled > 0
    /\ scheduled' = scheduled - 1
    /\ play_next_head(queue)
    /\ raised' = ""
    /\ UNCHANGED <<channel, player, source, vol, searching, ended>>

\* play_next from the return of from_url for the popped track t to its end
play_next_start(t) ==
    LET res == play_next_start_result(t) IN
    /\ fetching[t] > 0
    /\ fetching' = [fetching EXCEPT ![t] = @ - 1]
    /\ raised' = Exc(res.reply)
    /\ IF res.starts
       THEN /\ player' = "Playing"
            /\ source' = t
            /\ vol' = DefaultVolume
       ELSE UNCHANGED <<player, source, vol>>
    /\ UNCHANGED <<queue, channel, searching, scheduled, ended>>

\* the player thread reaches the end of the stream (e = "none") or fails (e = "error")
track_finished(e) ==
    /\ is_playing
    /\ Tasks < MaxTasks
    /\ player' = "Ended"
    /\ ended' = [ended EXCEPT ![e] = @ + 1]
    /\ raised' = ""
    /\ UNCHANGED <<queue, channel, source, vol, searching, fetching, scheduled>>

\* the player thread calls after_playing(e)
after_playing(e) ==
    /\ ended[e] > 0
    /\ ended' = [ended EXCEPT ![e] = @ - 1]
    /\ scheduled' = scheduled + after_playing_tasks(e)
    /\ raised' = ""
    /\ UNCHANGED <<queue, channel, player, source, vol, searching, fetching>>

\* ctx.voice_client.stop(): the player is dropped; if its thread was still
\* running it ends and will call after(None)
VoiceStop ==
    /\ player' = "None"
    /\ source' = NoTrack
    /\ vol' = NoVolume
    /\ IF player \in {"Playing", "Paused"}
       THEN /\ Tasks < MaxTasks
            /\ ended' = [ended EXCEPT !["none"] = @ + 1]
       ELSE UNCHANGED ended

\* !skip
skip(inVoice) ==
    /\ raised' = Exc(skip_result(inVoice).reply)
    /\ IF skip_result(inVoice).stops THEN VoiceStop
       ELSE UNCHANGED <<player, source, vol, ended>>
    /\ UNCHANGED <<queue, channel, searching, fetching, scheduled>>

\* !current
current_song ==
    /\ raised' = Exc(current_song_result)
    /\ UNCHANGED <<queue, channel, player, source, vol, searching, fetching, scheduled, ended>>

\* !queue
queue_info ==
    /\ raised' = Exc(queue_info_result(queue))
    /\ UNCHANGED <<queue, channel, player, source, vol, searching, fetching, scheduled, ended>>

\* !remove <song_number>
remove_song(song_number) ==
    /\ queue' = remove_song_result(queue, song_number).queue
    /\ raised' = Exc(remove_song_result(queue, song_number).reply)
    /\ UNCHANGED <<channel, player, source, vol, searching, fetching, scheduled, ended>>

\* !clear
clear_queue ==
    /\ queue' = clear_queue_result.queue
    /\ raised' = Exc(clear_queue_result.reply)
    /\ UNCHANGED <<channel, player, source, vol, searching, fetching, scheduled, ended>>

\* !pause
pause ==
    /\ player' = pause_result.player
    /\ raised' = Exc(pause_result.reply)
    /\ UNCHANGED <<queue, channel, source, vol, searching, fetching, scheduled, ended>>

\* !resume
resume ==
    /\ player' = resume_result.player
    /\ raised' = Exc(resume_result.reply)
    /\ UNCHANGED <<queue, channel, source, vol, searching, fetching, scheduled, ended>>

\* !volume <volume>
volume(level) ==
    /\ vol' = volume_result(level).vol
    /\ raised' = Exc(volume_result(level).reply)
    /\ UNCHANGED <<queue, channel, player, source, searching, fetching, scheduled, ended>>

\* !stop
stop ==
    /\ raised' = Exc(stop_result.reply)
    /\ IF stop_result.disconnects
       THEN VoiceStop /\ channel' = NoChannel
       ELSE UNCHANGED <<channel, player, source, vol, ended>>
    /\ UNCHANGED <<queue, searching, fetching, scheduled>>

Voice(c) == IF c = NoChannel THEN "novoice" ELSE "voice"

Next ==
    \/ \E c \in Channels \cup {NoChannel} : play(c) /\ Observe(<<"play", Voice(c)>>)
    \/ \E r \in Results : play_resume(r) /\ Observe(<<"found", r>>)
    \/ play_next /\ Observe(<<"play_next", "">>)
    \/ play_next_task /\ Observe(<<"task", "">>)
    \/ \E t \in Tracks : play_next_start(t) /\ Observe(<<"start", t>>)
    \/ \E e \in Errors : track_finished(e) /\ Observe(<<"finished", e>>)
    \/ \E e \in Errors : after_playing(e) /\ Observe(<<"after", e>>)
    \/ \E v \in BOOLEAN : skip(v) /\ Observe(<<"skip", IF v THEN "voice" ELSE "novoice">>)
    \/ current_song /\ Observe(<<"current", "">>)
    \/ queue_info /\ Observe(<<"queue", "">>)
    \/ \E p \in Positions : remove_song(p) /\ Observe(<<"remove", "">>)
    \/ clear_queue /\ Observe(<<"clear", "">>)
    \/ pause /\ Observe(<<"pause", "">>)
    \/ resume /\ Observe(<<"resume", "">>)
    \/ \E l \in Levels : volume(l) /\ Observe(<<"volume", "">>)
    \/ stop /\ Observe(<<"stop", "">>)

Spec == Init /\ [][Next]_vars

\* ---------------------------------------------------------------- the queue draining on its own
\* A connected session in which a track plays, some tracks wait in the queue,
\* and no command is in flight.
DrainInit ==
    /\ queue \in UNION {[1 .. n -> Tracks] : n \in 0 .. MaxQueue}
    /\ channel \in Channels
    /\ player = "Playing"
    /\ source \in Tracks
    /\ vol = DefaultVolume
    /\ searching = 0
    /\ fetching = [t \in Tracks |-> 0]
    /\ scheduled = 0
    /\ ended = [e \in Errors |-> 0]
    /\ raised = ""
    /\ scen = 0

\* No command is issued and no stream fails: the steps left are the end of the
\* stream, its callback, the callback's play_next task and the start of the
\* track that task popped.
DrainNext ==
    \/ track_finished("none") /\ Observe(<<"finished", "none">>)
    \/ after_playing("none") /\ Observe(<<"after", "none">>)
    \/ play_next_task /\ Observe(<<"task", "">>)
    \/ \E t \in Tracks : play_next_start(t) /\ Observe(<<"start", t>>)

\* Every stream comes to its end, the player thread calls `after` when its
\* stream has ended, the event loop runs every task created on it, and from_url
\* returns.
SpecDrain ==
    /\ DrainInit
    /\ [][DrainNext]_vars
    /\ WF_vars(track_finished("none") /\ Observe(<<"finished", "none">>))
    /\ WF_vars(after_playing("none") /\ Observe(<<"after", "none">>))
    /\ WF_vars(play_next_task /\ Observe(<<"task", "">>))
    /\ WF_vars(\E t \in Tracks : play_next_start(t) /\ Observe(<<"start", t>>))

\* ---------------------------------------------------------------- claims
NotFoundEmbed ==
    Embed("Either we couldn't find this song or it might not appeal to the Vice City vibe.", "")

\* C1 (as claimed): a play_next invocation (the !play_next command or the task
\* created by after_playing) that finds the session Playing is a no-op: it
\* leaves the queue, the tracks handed to from_url and the current track as
\* they are.
C1_PlayNextNoOpWhilePlaying ==
    [][(is_playing /\ (play_next \/ play_next_task))
        => (queue' = queue /\ fetching' = fetching /\ currentTrack' = currentTrack)]_vars

C3_ThreePlaysThenSkip ==
    /\ scen = 7 => (is_playing /\ source = "A" /\ queue = <<"B", "C">>)
    /\ scen = 8 => (~is_playing /\ currentTrack = NoTrack /\ ended["none"] = 1 /\ queue = <<"B", "C">>)
    /\ scen = 11 => (is_playing /\ source = "B" /\ queue = <<"C">> /\ raised = "")

C3_Witness == scen = Len(Script) /\ is_playing /\ source = "B"

\* C4 (as claimed): a play whose search returns None leaves the queue as it
\* is, starts nothing, and ends normally after sending the could-not-find embed.
C4_NotFoundReported ==
    [][(searching' = searching - 1 /\ queue' = queue /\ fetching' = fetching)
        => (raised' = "" /\ play_resume_result(NotFound).reply = NotFoundEmbed)]_vars

\* C5 (as claimed): skip by a user in voice, with the bot connected and a track
\* playing, stops the track, whether or not the queue is empty.
C5_SkipStopsWhenPlaying ==
    (Connected /\ is_playing) => skip_result(TRUE).stops

\* C5 (amended): skip by a user in voice, with the bot connected and a track
\* playing, stops the track exactly when the queue is non-empty; with an empty
\* queue it stops nothing and sends the queue-is-empty embed that points to !stop.
C5_SkipStopsIffQueued ==
    (Connected /\ is_playing) =>
        /\ skip_result(TRUE).stops <=> queue # <<>>
        /\ queue # <<>> => skip_result(TRUE).reply = Embed("Skipping the current song.", "")
        /\ queue = <<>> => skip_result(TRUE).reply =
               Embed("The queue is empty. If you want to stop the current song, use the !stop command.", "")

\* a skip has just stopped the playing track A of the scenario
C5_Witness == scen = 8 /\ player = "None" /\ Connected /\ queue # <<>>

\* C6 (as claimed): a play that resumes from its search while a track is
\* playing or paused appends its track and does not go into play_next.
C6_AutostartOnlyWhenIdle ==
    [][(player \in {"Playing", "Paused"} /\ searching' = searching - 1 /\ raised' = "")
        => (fetching' = fetching /\ \E t \in Tracks : queue' = Append(queue, t))]_vars

\* C7: remove with a song number below 1 or above the queue length leaves the
\* queue as it is and sends "Invalid song number." (or "The queue is empty."
\* when it is).
C7_RemoveOutOfRange ==
    \A p \in Positions :
        (p < 1 \/ p > Len(queue)) =>
            /\ remove_song_result(queue, p).queue = queue
            /\ remove_song_result(queue, p).reply =
                   IF queue = <<>> THEN Embed("The queue is empty.", "")
                   ELSE Embed("Invalid song number.", "")

C7_Witness ==
    /\ Len(queue) = 2
    /\ remove_song_result(queue, 3).reply = Embed("Invalid song number.", "")
    /\ remove_song_result(queue, 0).queue = queue

\* C8: remove with 1 <= p <= len(queue) removes the p-th queued track (the
\* track playing is not counted), names it in its embed, and keeps the others
\* in their order; remove 2 on <<B, C>> leaves <<B>>.
C8_RemoveInRange ==
    /\ \A p \in 1 .. Len(queue) :
          LET res == remove_song_result(queue, p) IN
          /\ Len(res.queue) = Len(queue) - 1
          /\ \A i \in 1 .. Len(res.queue) : res.queue[i] = IF i < p THEN queue[i] ELSE queue[i + 1]
          /\ res.reply = Embed("has been removed from the queue.", queue[p])
    /\ queue = <<"B", "C">> => remove_song_result(queue, 2).queue = <<"B">>

\* A plays while B and C wait: position 2 is C
C8_Witness ==
    /\ scen = 7
    /\ remove_song_result(queue, 2).reply.track = "C"
    /\ currentTrack = "A"

\* C9: the fields of the queue embed are numbered from 1, and a step that
\* appends a track to the queue (and pops none) adds its field after the
\* fields already listed.
C9_ListingInInsertionOrder ==
    /\ [](\A i \in 1 .. Len(queue) : queue_info_result(queue).fields[i] = <<i, queue[i]>>)
    /\ [][Len(queue') = Len(queue) + 1
          => \E t \in Tracks :
                queue_info_result(queue').fields =
                    queue_info_result(queue).fields \o << <<Len(queue) + 1, t>> >>]_vars

\* B, then C, were appended with nothing between
C9_Witness ==
    /\ scen = 7
    /\ queue_info_result(queue).fields = << <<1, "B">>, <<2, "C">> >>

\* C10 (as claimed): a play_next that finds the queue non-empty removes its
\* head and nothing else, and the head it removed is the track it starts; on an
\* empty queue it starts nothing.
C10_PoppedHeadIsStarted ==
    [][/\ \A t \in Tracks :
            fetching'[t] = fetching[t] + 1
                => \E q \in {queue} \cup {enqueue(queue, r) : r \in Tracks} :
                       q # <<>> /\ t = Head(q) /\ queue' = Tail(q)
       /\ \A t \in Tracks :
            fetching'[t] = fetching[t] - 1 => (is_playing' /\ source' = t /\ raised' = "")
       /\ (queue = <<>> /\ (play_next \/ play_next_task)) => (queue' = <<>> /\ fetching' = fetching)]_vars

\* C11: with the bot connected, pause while nothing plays (no player, a stream
\* that ended, or a paused track) sends "The bot is not playing anything." and
\* leaves the player as it is; from Playing it pauses; and no step of the bot
\* reaches Paused from a state that is not Playing.
C11_PauseOnlyFromPlaying ==
    /\ []((Connected /\ ~is_playing) =>
            /\ pause_result.player = player
            /\ pause_result.reply = Embed("The bot is not playing anything.", ""))
    /\ []((Connected /\ is_playing) => pause_result.player = "Paused")
    /\ [][(player' = "Paused" /\ player # "Paused")
            => (is_playing /\ source' = source /\ queue' = queue /\ channel' = channel)]_vars

\* a track is paused, and a second pause finds it so
C11_Witness ==
    /\ Connected
    /\ is_paused
    /\ pause_result.reply = Embed("The bot is not playing anything.", "")

\* C12 (as claimed): stop with the bot connected disconnects it and leaves no
\* player and no current track, and the queue is as it was, also after the
\* play_next task of the callback that the teardown triggers has run.
C12_QueueSurvivesStop ==
    [][/\ (Connected /\ ~Connected')
            => (queue' = queue /\ player' = "None" /\ currentTrack' = NoTrack)
       /\ (~Connected /\ scheduled' = scheduled - 1) => queue' = queue]_vars

\* C13: clear leaves the queue empty in every state and sends its embed, and
\* the step that empties a queue of two or more tracks at once (only clear
\* does) leaves the player, its source and volume, the voice connection and the
\* coroutines in flight as they are.
C13_ClearOnlyTheQueue ==
    /\ [](clear_queue_result.queue = <<>>
          /\ clear_queue_result.reply = Embed("The queue has been cleared.", ""))
    /\ [][(Len(queue) >= 2 /\ queue' = <<>>)
            => /\ player' = player /\ source' = source /\ vol' = vol
               /\ channel' = channel /\ currentTrack' = currentTrack
               /\ fetching' = fetching /\ searching' = searching
               /\ scheduled' = scheduled /\ ended' = ended /\ raised' = ""]_vars

\* a paused track with two tracks queued behind it, which clear will drop
C13_Witness ==
    /\ Len(queue) = 2
    /\ is_paused
    /\ Connected

\* C14 (as claimed): volume L fails, with the not-in-a-voice-channel embed and
\* no change, only when the bot is not connected; when it is connected the
\* command is accepted in every state, and the volume of a streaming track
\* becomes L / 100 without an upper clamp (150 gives 3/2).
C14_VolumeAcceptedWhenConnected ==
    \A l \in Levels :
        /\ ~Connected =>
              /\ volume_result(l).reply = Embed("The bot is not in a voice channel.", "")
              /\ volume_result(l).vol = vol
        /\ Connected =>
              /\ volume_result(l).reply = Embed("Setting the volume to", "")
              /\ currentTrack # NoTrack => volume_result(l).vol = VolumeScale(l)
              /\ (currentTrack # NoTrack /\ l = 150) => volume_result(l).vol = <<3, 2>>

\* C15 (as claimed): a command issued in a state where its precondition fails
\* (user not in voice, bot not connected, queue empty, song number out of
\* range) sends a message and raises nothing; so do pause, resume and current
\* while the bot has no voice connection.
C15_PreconditionFailuresAreMessages ==
    /\ Exc(play_result(NoChannel).reply) = ""
    /\ Exc(skip_result(FALSE).reply) = ""
    /\ (~Connected \/ queue = <<>>) => Exc(skip_result(TRUE).reply) = ""
    /\ queue = <<>> => Exc(queue_info_result(queue)) = ""
    /\ \A p \in Positions :
          (p < 1 \/ p > Len(queue)) => Exc(remove_song_result(queue, p).reply) = ""
    /\ ~Connected =>
          /\ Exc(current_song_result) = ""
          /\ Exc(pause_result.reply) = ""
          /\ Exc(resume_result.reply) = ""
          /\ Exc(stop_result.reply) = ""
          /\ \A l \in Levels : Exc(volume_result(l).reply) = ""

\* C16 (as claimed): of two plays issued while the session is idle, only one
\* goes into play_next: a play that resumes from its search while the bot is
\* connected, nothing is playing or paused, and another play_next is already
\* suspended in from_url with its popped track, appends its track and pops
\* nothing, so the track stays queued.
C16_OneStartPerIdleSession ==
    [][(/\ searching' = searching - 1
        /\ raised' = ""
        /\ Connected
        /\ player \notin {"Playing", "Paused"}
        /\ SumOver(fetching, Tracks) > 0)
        => (fetching' = fetching /\ \E t \in Tracks : queue' = Append(queue, t))]_vars

\* C17 (as claimed): a play whose search found a track and that resumes after
\* a stop has disconnected the bot discards the result: it appends nothing,
\* goes into no play_next, and ends normally.
C17_StaleSearchDiscarded ==
    [][(/\ ~Connected
        /\ searching' = searching - 1
        /\ raised' # "TypeError")
        => (queue' = queue /\ fetching' = fetching /\ raised' = "")]_vars

C19_TrackConservation ==
    [][/\ Len(queue') < Len(queue)
            => \/ \E t \in Tracks :
                     /\ t = Head(queue)
                     /\ queue' = Tail(queue)
                     /\ fetching' = [fetching EXCEPT ![t] = @ + 1]
               \/ \E p \in 1 .. Len(queue) :
                     queue' = remove_song_result(queue, p).queue /\ fetching' = fetching
               \/ queue' = clear_queue_result.queue /\ fetching' = fetching
       /\ \A t \in Tracks :
            fetching'[t] < fetching[t] => (player' = "Playing" /\ source' = t)]_vars

\* C20: play passes its voice check exactly when the user is in a voice
\* channel. A play from channel c that passes it leaves the bot connected to c,
\* whether it was connected nowhere, elsewhere or to c already, and the player,
\* its source and volume, and the queue are as they were (the connection is
\* moved, not made anew); a play by a user in no voice channel changes neither
\* the connection nor the queue and starts no search.
C20_JoinOrMove ==
    /\ [](~play_result(NoChannel).joins /\ \A c \in Channels : play_result(c).joins)
    /\ [][/\ \A c \in Channels :
               play(c) => /\ channel' = c
                          /\ searching' = searching + 1
                          /\ player' = player /\ source' = source /\ vol' = vol
                          /\ ended' = ended /\ queue' = queue
          /\ play(NoChannel) => /\ channel' = channel /\ queue' = queue
                                /\ searching' = searching /\ raised' = ""
          /\ searching' = searching + 1 => (Connected' /\ queue' = queue)]_vars

\* a play from c2 has passed its voice check while the bot was playing
C20_Witness ==
    /\ channel = "c2"
    /\ is_playing
    /\ searching > 0

====
